---- MODULE Spec2Model ----
(***************************************************************************)
(* Model of napalm_network.py: the configuration transaction logic         *)
(* (_config_logic, reached through load_config and load_template) and the  *)
(* drift reconciler (config_changed, config_control).                      *)
(*                                                                         *)
(* Python strings that are built by concatenation (the 'comment' fields)   *)
(* are sequences of text pieces: a literal of the source is one piece, a   *)
(* non-empty message of the driver is one piece, the empty string is the   *)
(* empty sequence.  Python dicts are functions whose DOMAIN is the key set. *)
(***************************************************************************)
EXTENDS Integers, Sequences, FiniteSets, TLC

\* Number of distinct non-empty messages a driver call may return.
NumMsgs == 2
\* Number of distinct non-empty diff texts compare_config may return.
NumDiffs == 1
\* Longest list of records given to the filter helpers.
MaxRecords == 2
\* Number of distinct values (other than None) a record field may hold.
NumValues == 2
\* Number of distinct configurations the device may hold.
NumConfigs == 2
\* Number of driver operations in one behaviour of the drift checks.
MaxCalls == 3

VARIABLES
    pc,             \* position in the running function
    fn,             \* the exported function that was called
    test,           \* argument test of load_config / load_template
    commit_config,  \* argument commit of load_config / load_template
    loaded_result,  \* the dict _config_logic mutates and returns
    calls,          \* the driver operations invoked so far, in order
    returned,       \* the envelope each invoked driver operation returned
    result,         \* local 'result' of config_control
    comment,        \* local 'comment' of config_control
    retval,         \* the value the called function returns
    args,           \* the arguments of a called helper function
    device          \* the configuration store of the device (drift checks)

vars == <<pc, fn, test, commit_config, loaded_result, calls, returned,
          result, comment, retval, args, device>>

(***************************************************************************)
(* Values                                                                  *)
(***************************************************************************)

\* The 'comment' strings the driver may return; "" is the empty string.
DriverComments ==
    {"", "syntax error"} \cup {"msg" \o ToString(i) : i \in 1..NumMsgs}

\* The 'out' strings compare_config may return on success.
DiffTexts == {""} \cup {"diff" \o ToString(i) : i \in 1..NumDiffs}

\* A Python string as a sequence of pieces.
Str(s) == IF s = "" THEN <<>> ELSE <<s>>

\* Python's `s in c` on strings: s is a contiguous part of c.
Contains(c, s) ==
    \E i \in 0..(Len(c) - Len(s)) : SubSeq(c, i + 1, i + Len(s)) = s

\* The dict every napalm.call returns.
Envelope(r, c, o) == [result |-> r, comment |-> c, out |-> o]

\* dict.get(k, default)
Get(d, k, default) == IF k \in DOMAIN d THEN d[k] ELSE default

\* d[k] = v
SetKey(d, k, v) == (k :> v) @@ d

\* d.pop(k, default), for its effect on d
Pop(d, k) == [x \in (DOMAIN d) \ {k} |-> d[x]]

\* Number of invocations of driver operation op so far.
Count(op) == Cardinality({i \in 1..Len(calls) : calls[i] = op})

\* Record the invocation of driver operation op returning envelope env.
Invoke(op, env) ==
    /\ calls' = Append(calls, op)
    /\ returned' = (op :> env) @@ returned

(***************************************************************************)
(* _config_logic                                                           *)
(***************************************************************************)

\* Variant: test mode is not taken into account.
TakesDiscardBranch_NoTest(lr, t) == ~Get(lr, "result", FALSE)

\* `not _loaded_res or test`
TakesDiscardBranch(lr, t) == ~Get(lr, "result", FALSE) \/ t

\* Variant: the commit argument is not taken into account.
TakesCommitBranch_IgnoreCommit(t, c) == ~t

\* `not test and commit_config`
TakesCommitBranch(t, c) == ~t /\ c

\* Variant: the diff is taken to be non-empty whatever it is.
HasDiff_Always(lr) == TRUE

\* Variant: the diff is taken to be empty whatever it is.
HasDiff_Never(lr) == FALSE

\* `len(loaded_result.get('diff', '')) > 0`
HasDiff(lr) == Get(lr, "diff", "") # ""

\* Variant: no default text for an empty comment.
CommentOr_NoDefault(env, default) == Str(env.comment)

\* `env['comment'] if env['comment'] else default`
CommentOr(env, default) ==
    IF env.comment # "" THEN Str(env.comment) ELSE <<default>>

\* Variant: the raw 'out' key is kept.
WithDiff_KeepOut(lr, cmp) == SetKey(lr, "diff", Get(cmp, "out", "None"))

\* The result dict after a successful compare_config.
WithDiff(lr, cmp) == Pop(SetKey(lr, "diff", Get(cmp, "out", "None")), "out")

\* Variant: the text is appended to the previous comment.
AlreadyConfiguredComment_Append(prev) == prev \o <<"Already configured.">>

\* The comment after the no-change discard has succeeded.
AlreadyConfiguredComment(prev) == <<"Already configured.">>

\* Variant: the outcome of the discard is not added to the comment.
AfterCompensation_Dropped(prev, disc) == prev

\* The comment after the discard that follows a failed commit.
AfterCompensation(prev, disc) ==
    prev \o <<"\n">> \o CommentOr(disc, "Unable to discard config.")

\* Variant: the flag follows the outcome of the discard.
ResultAfterCompensation_FromDiscard(prev, disc) == Get(disc, "result", FALSE)

\* The result flag after the discard that follows a failed commit.
ResultAfterCompensation(prev, disc) == prev

\* Variant: a discarded configuration always counts as a failure.
ResultAfterDiscard_False(prev) == FALSE

\* The result flag after a successful discard in the failure / test branch:
\* left as it is, "as the result can be true when test=True".
ResultAfterDiscard(prev) == prev

Init ==
    /\ pc = "idle"
    /\ fn = "none"
    /\ test = FALSE
    /\ commit_config = TRUE
    /\ loaded_result = <<>>
    /\ calls = <<>>
    /\ returned = <<>>
    /\ result = TRUE
    /\ comment = <<>>
    /\ retval = <<>>
    /\ args = <<>>
    /\ device = <<>>

\* The driver call of load_config / load_template and the entry of
\* _config_logic up to its call of compare_config.
Load(name, op) ==
    /\ pc = "idle"
    /\ \E t \in BOOLEAN, c \in BOOLEAN, r \in BOOLEAN, m \in DriverComments :
          LET _loaded == Envelope(r, m, "None") IN
          /\ test' = t
          /\ commit_config' = c
          /\ Invoke(op, _loaded)
          /\ loaded_result' =
                SetKey([result |-> r, comment |-> Str(m), out |-> "None"],
                       "already_configured", FALSE)
    /\ fn' = name
    /\ pc' = "compare"
    /\ UNCHANGED <<result, comment, retval>>
    /\ UNCHANGED <<args, device>>

load_config == Load("load_config", "load_merge_candidate")

load_template == Load("load_template", "load_template")

\* compare_config() and the update of the result dict.
ConfigLogicCompare ==
    /\ pc = "compare"
    /\ \E r \in BOOLEAN, m \in DriverComments :
          \E o \in (IF r THEN DiffTexts ELSE {"None"}) :
             LET _compare == Envelope(r, m, o) IN
             /\ Invoke("compare_config", _compare)
             /\ loaded_result' =
                   IF Get(_compare, "result", FALSE)
                   THEN WithDiff(loaded_result, _compare)
                   ELSE loaded_result
    /\ pc' = "branch"
    /\ UNCHANGED <<fn, test, commit_config, result, comment, retval>>
    /\ UNCHANGED <<args, device>>

\* Loading failed or test mode: discard and return.
ConfigLogicDiscard ==
    /\ pc = "branch"
    /\ TakesDiscardBranch(loaded_result, test)
    /\ \E r \in BOOLEAN, m \in DriverComments :
          LET _discarded == Envelope(r, m, "None")
              c1 == IF loaded_result["comment"] # <<>>
                    THEN loaded_result["comment"] \o <<"\n">>
                    ELSE loaded_result["comment"]
              lr1 == SetKey(loaded_result, "comment", c1)
              lr2 == IF ~HasDiff(lr1)
                     THEN SetKey(lr1, "already_configured", TRUE)
                     ELSE lr1
          IN
          /\ Invoke("discard_config", _discarded)
          /\ loaded_result' =
                IF ~Get(_discarded, "result", FALSE)
                THEN SetKey(SetKey(lr2, "comment",
                        lr2["comment"]
                          \o CommentOr(_discarded, "Unable to discard config.")),
                        "result", FALSE)
                ELSE SetKey(SetKey(lr2, "comment",
                        lr2["comment"] \o <<"Configuration discarded.">>),
                        "result", ResultAfterDiscard(lr2["result"]))
    /\ pc' = "done"
    /\ UNCHANGED <<fn, test, commit_config, result, comment, retval>>
    /\ UNCHANGED <<args, device>>

\* Variant: a failed commit is tried a second time.
ConfigLogicCommit_RetriesOnce ==
    /\ pc = "branch"
    /\ ~TakesDiscardBranch(loaded_result, test)
    /\ TakesCommitBranch(test, commit_config)
    /\ HasDiff(loaded_result)
    /\ \E r \in BOOLEAN, m \in DriverComments :
          LET _commit == Envelope(r, m, "None") IN
          /\ Invoke("commit_config", _commit)
          /\ IF ~Get(_commit, "result", FALSE)
             THEN IF Count("commit_config") = 0
                  THEN /\ loaded_result' = loaded_result
                       /\ pc' = "branch"
                  ELSE /\ loaded_result' =
                             SetKey(SetKey(loaded_result, "comment",
                                loaded_result["comment"]
                                  \o CommentOr(_commit,
                                               "Unable to commit config.")),
                                "result", FALSE)
                       /\ pc' = "compensate"
             ELSE /\ loaded_result' = loaded_result
                  /\ pc' = "done"
    /\ UNCHANGED <<fn, test, commit_config, result, comment, retval>>
    /\ UNCHANGED <<args, device>>

\* Commit wanted and there are changes: commit.
ConfigLogicCommit ==
    /\ pc = "branch"
    /\ ~TakesDiscardBranch(loaded_result, test)
    /\ TakesCommitBranch(test, commit_config)
    /\ HasDiff(loaded_result)
    /\ \E r \in BOOLEAN, m \in DriverComments :
          LET _commit == Envelope(r, m, "None") IN
          /\ Invoke("commit_config", _commit)
          /\ IF ~Get(_commit, "result", FALSE)
             THEN /\ loaded_result' =
                        SetKey(SetKey(loaded_result, "comment",
                           loaded_result["comment"]
                             \o CommentOr(_commit, "Unable to commit config.")),
                           "result", FALSE)
                  /\ pc' = "compensate"
             ELSE /\ loaded_result' = loaded_result
                  /\ pc' = "done"
    /\ UNCHANGED <<fn, test, commit_config, result, comment, retval>>
    /\ UNCHANGED <<args, device>>

\* Unable to commit: discard the candidate.
ConfigLogicCompensate ==
    /\ pc = "compensate"
    /\ \E r \in BOOLEAN, m \in DriverComments :
          LET _discarded == Envelope(r, m, "None") IN
          /\ Invoke("discard_config", _discarded)
          /\ loaded_result' =
                SetKey(SetKey(loaded_result, "comment",
                   AfterCompensation(loaded_result["comment"], _discarded)),
                   "result",
                   ResultAfterCompensation(loaded_result["result"], _discarded))
    /\ pc' = "done"
    /\ UNCHANGED <<fn, test, commit_config, result, comment, retval>>
    /\ UNCHANGED <<args, device>>

\* Variant: the config DB is not released when there is no change.
ConfigLogicNoChange_NoDiscard ==
    /\ pc = "branch"
    /\ ~TakesDiscardBranch(loaded_result, test)
    /\ TakesCommitBranch(test, commit_config)
    /\ ~HasDiff(loaded_result)
    /\ loaded_result' =
          SetKey(SetKey(loaded_result, "already_configured", TRUE),
                 "comment", AlreadyConfiguredComment(loaded_result["comment"]))
    /\ pc' = "done"
    /\ UNCHANGED <<fn, test, commit_config, calls, returned,
                   result, comment, retval>>
    /\ UNCHANGED <<args, device>>

\* Variant: a failed discard is not noticed when there is no change.
ConfigLogicNoChange_IgnoresFailure ==
    /\ pc = "branch"
    /\ ~TakesDiscardBranch(loaded_result, test)
    /\ TakesCommitBranch(test, commit_config)
    /\ ~HasDiff(loaded_result)
    /\ \E r \in BOOLEAN, m \in DriverComments :
          LET _discarded == Envelope(r, m, "None") IN
          /\ Invoke("discard_config", _discarded)
          /\ loaded_result' =
                SetKey(SetKey(loaded_result, "already_configured", TRUE),
                       "comment",
                       AlreadyConfiguredComment(loaded_result["comment"]))
    /\ pc' = "done"
    /\ UNCHANGED <<fn, test, commit_config, result, comment, retval>>
    /\ UNCHANGED <<args, device>>

\* Commit wanted but there is no change: discard to release the config DB.
ConfigLogicNoChange ==
    /\ pc = "branch"
    /\ ~TakesDiscardBranch(loaded_result, test)
    /\ TakesCommitBranch(test, commit_config)
    /\ ~HasDiff(loaded_result)
    /\ \E r \in BOOLEAN, m \in DriverComments :
          LET _discarded == Envelope(r, m, "None") IN
          /\ Invoke("discard_config", _discarded)
          /\ loaded_result' =
                IF ~Get(_discarded, "result", FALSE)
                THEN SetKey(SetKey(loaded_result, "comment",
                        loaded_result["comment"]
                          \o CommentOr(_discarded, "Unable to discard config.")),
                        "result", FALSE)
                ELSE SetKey(SetKey(loaded_result, "already_configured", TRUE),
                        "comment",
                        AlreadyConfiguredComment(loaded_result["comment"]))
    /\ pc' = "done"
    /\ UNCHANGED <<fn, test, commit_config, result, comment, retval>>
    /\ UNCHANGED <<args, device>>

\* Neither test mode nor commit: return the result as it is.
ConfigLogicReturn ==
    /\ pc = "branch"
    /\ ~TakesDiscardBranch(loaded_result, test)
    /\ ~TakesCommitBranch(test, commit_config)
    /\ pc' = "done"
    /\ UNCHANGED <<fn, test, commit_config, loaded_result, calls, returned,
                   result, comment, retval>>
    /\ UNCHANGED <<args, device>>

(***************************************************************************)
(* config_changed and config_control                                       *)
(***************************************************************************)

\* Variant: the reason of a failed comparison is not reported.
config_changed_NoReason(try_compare) ==
    IF Get(try_compare, "result", FALSE)
    THEN IF Get(try_compare, "out", "") # ""
         THEN <<TRUE, <<>>>>
         ELSE <<FALSE, <<"Configuration was not changed on the device.">>>>
    ELSE <<FALSE, <<>>>>

\* The tuple config_changed returns for the envelope of compare_config.
config_changed(try_compare) ==
    IF Get(try_compare, "result", FALSE)
    THEN IF Get(try_compare, "out", "") # ""
         THEN <<TRUE, <<>>>>
         ELSE <<FALSE, <<"Configuration was not changed on the device.">>>>
    ELSE <<FALSE, Str(Get(try_compare, "comment", ""))>>

\* Variant: the reason of the failed commit is left out.
CommitFailedComment_NoReason(try_commit) ==
    <<"Unable to commit the changes: ">>
       \o <<".\n        Will try to rollback now!">>

\* The comment of config_control after a failed commit.
CommitFailedComment(try_commit) ==
    <<"Unable to commit the changes: ">> \o Str(try_commit.comment)
       \o <<".\n        Will try to rollback now!">>

\* Variant: the reason of the failed rollback is left out.
RollbackFailedComment_NoReason(prev, try_rollback) ==
    prev \o <<"\nCannot rollback! ">>

\* The comment of config_control after a failed rollback.
RollbackFailedComment(prev, try_rollback) ==
    prev \o <<"\nCannot rollback! ">> \o Str(try_rollback.comment)

\* The exported function config_changed: one compare_config, then return.
ConfigChangedCall ==
    /\ pc = "idle"
    /\ \E r \in BOOLEAN, m \in DriverComments :
          \E o \in (IF r THEN DiffTexts ELSE {"None"}) :
             LET try_compare == Envelope(r, m, o) IN
             /\ Invoke("compare_config", try_compare)
             /\ retval' = config_changed(try_compare)
    /\ fn' = "config_changed"
    /\ pc' = "done"
    /\ UNCHANGED <<test, commit_config, loaded_result, result, comment>>
    /\ UNCHANGED <<args, device>>

\* Variant: the early return hands back the result flag, not the drift flag.
ConfigControlChanged_ReturnsResult ==
    /\ pc = "idle"
    /\ \E r \in BOOLEAN, m \in DriverComments :
          \E o \in (IF r THEN DiffTexts ELSE {"None"}) :
             LET try_compare == Envelope(r, m, o)
                 t == config_changed(try_compare)
             IN
             /\ Invoke("compare_config", try_compare)
             /\ IF ~t[1]
                THEN /\ retval' = <<TRUE, t[2]>>
                     /\ pc' = "done"
                ELSE /\ retval' = retval
                     /\ pc' = "cc_commit"
    /\ fn' = "config_control"
    /\ result' = TRUE
    /\ comment' = <<>>
    /\ UNCHANGED <<test, commit_config, loaded_result>>
    /\ UNCHANGED <<args, device>>

\* config_control up to the return of config_changed.
ConfigControlChanged ==
    /\ pc = "idle"
    /\ \E r \in BOOLEAN, m \in DriverComments :
          \E o \in (IF r THEN DiffTexts ELSE {"None"}) :
             LET try_compare == Envelope(r, m, o)
                 t == config_changed(try_compare)
             IN
             /\ Invoke("compare_config", try_compare)
             /\ IF ~t[1]
                THEN /\ retval' = t
                     /\ pc' = "done"
                ELSE /\ retval' = retval
                     /\ pc' = "cc_commit"
    /\ fn' = "config_control"
    /\ result' = TRUE
    /\ comment' = <<>>
    /\ UNCHANGED <<test, commit_config, loaded_result>>
    /\ UNCHANGED <<args, device>>

\* The configuration changed: try to commit.
ConfigControlCommit ==
    /\ pc = "cc_commit"
    /\ \E r \in BOOLEAN, m \in DriverComments :
          LET try_commit == Envelope(r, m, "None") IN
          /\ Invoke("commit_config", try_commit)
          /\ IF ~Get(try_commit, "result", FALSE)
             THEN /\ result' = FALSE
                  /\ comment' = CommitFailedComment(try_commit)
                  /\ retval' = retval
                  /\ pc' = "cc_rollback"
             ELSE /\ UNCHANGED <<result, comment>>
                  /\ retval' = <<result, comment>>
                  /\ pc' = "done"
    /\ UNCHANGED <<fn, test, commit_config, loaded_result>>
    /\ UNCHANGED <<args, device>>

\* The commit failed: try to roll back, then return.
ConfigControlRollback ==
    /\ pc = "cc_rollback"
    /\ \E r \in BOOLEAN, m \in DriverComments :
          LET try_rollback == Envelope(r, m, "None")
              c == IF ~Get(try_rollback, "result", FALSE)
                   THEN RollbackFailedComment(comment, try_rollback)
                   ELSE comment
          IN
          /\ Invoke("rollback", try_rollback)
          /\ comment' = c
          /\ retval' = <<result, c>>
    /\ pc' = "done"
    /\ UNCHANGED <<fn, test, commit_config, loaded_result, result>>
    /\ UNCHANGED <<args, device>>

Next ==
    \/ load_config
    \/ load_template
    \/ ConfigLogicCompare
    \/ ConfigLogicDiscard
    \/ ConfigLogicCommit
    \/ ConfigLogicCompensate
    \/ ConfigLogicNoChange
    \/ ConfigLogicReturn
    \/ ConfigChangedCall
    \/ ConfigControlChanged
    \/ ConfigControlCommit
    \/ ConfigControlRollback

Spec == Init /\ [][Next]_vars

\* Every started function runs to its return.
FairSpec == Spec /\ WF_vars(Next)

(***************************************************************************)
(* Shorthands for the properties                                           *)
(***************************************************************************)

\* A load_config / load_template call has returned.
Returned == pc = "done" /\ fn \in {"load_config", "load_template"}

\* config_control has returned.
ControlReturned == pc = "done" /\ fn = "config_control"

Invoked(op) == op \in DOMAIN returned

Staged == Invoked("load_merge_candidate") \/ Invoked("load_template")

_loaded ==
    IF Invoked("load_merge_candidate")
    THEN returned["load_merge_candidate"]
    ELSE returned["load_template"]

Failed(op) == Invoked(op) /\ ~returned[op].result

Succeeded(op) == Invoked(op) /\ returned[op].result

\* The text a failed or commented call leaves in the message: the driver's
\* comment, or the default text when that comment is empty.
Reason(op, default) ==
    IF returned[op].comment # "" THEN <<returned[op].comment>> ELSE <<default>>

\* compare_config succeeded with a non-empty diff.
DiffNonEmpty ==
    Succeeded("compare_config") /\ returned["compare_config"].out # ""

(***************************************************************************)
(* Properties of _config_logic                                             *)
(***************************************************************************)

\* C1: in a load_config / load_template run with test=True, commit_config
\* is never invoked, and when the result is returned discard_config has
\* been invoked exactly once.
C1_TestNeverCommits ==
    (fn \in {"load_config", "load_template"} /\ test) =>
        /\ Count("commit_config") = 0
        /\ Count("discard_config") <= 1
        /\ pc = "done" => Count("discard_config") = 1

C1_Witness ==
    /\ Returned /\ test /\ commit_config
    /\ _loaded.result /\ DiffNonEmpty
    /\ Count("discard_config") = 1

\* C2: when the run has returned, commit_config was invoked if and only if
\* loading succeeded, test is False, commit is True and the diff is
\* non-empty; before the return it is never invoked unless all four hold.
C2_CommitIff ==
    LET wanted == _loaded.result /\ ~test /\ commit_config /\ DiffNonEmpty IN
    /\ (fn \in {"load_config", "load_template"} /\ Invoked("commit_config"))
          => wanted
    /\ Returned => (Invoked("commit_config") <=> wanted)

C2_Witness ==
    /\ Returned /\ Count("commit_config") = 1
    /\ _loaded.result /\ ~test /\ commit_config /\ DiffNonEmpty

\* C3 (as stated): every load_config / load_template run that has returned
\* has invoked commit_config or discard_config at least once, whatever test
\* and commit are.
C3_AlwaysPaired ==
    (Returned /\ Staged) =>
        Count("commit_config") + Count("discard_config") >= 1

\* C3 (amended): every load_config / load_template run that has returned
\* with test=True, or commit=True, or a failed loading, has invoked
\* commit_config or discard_config at least once.
C3_PairedUnlessNoCommit ==
    (Returned /\ Staged /\ (test \/ commit_config \/ ~_loaded.result)) =>
        Count("commit_config") + Count("discard_config") >= 1

C3_Witness ==
    /\ Returned /\ ~test /\ commit_config /\ _loaded.result
    /\ ~DiffNonEmpty
    /\ Count("discard_config") = 1 /\ Count("commit_config") = 0

\* C4: when loading succeeded, the diff is non-empty, commit_config failed
\* and discard_config succeeded (test=False, commit=True), the returned
\* result is False and its comment contains the reason of the commit
\* failure and confirms the discard: it carries the comment of the discard
\* and does not say that the discard was impossible.
C4_CommitFailureCompensation ==
    (/\ Returned /\ ~test /\ commit_config
     /\ _loaded.result /\ DiffNonEmpty
     /\ Failed("commit_config") /\ Succeeded("discard_config")) =>
        /\ loaded_result["result"] = FALSE
        /\ Contains(loaded_result["comment"],
                    Reason("commit_config", "Unable to commit config."))
        /\ Contains(loaded_result["comment"],
                    Str(returned["discard_config"].comment))
        /\ ~Contains(loaded_result["comment"], <<"Unable to discard config.">>)

\* C5 (as stated): a run with test=False, commit=True and an empty diff
\* returns already_configured=True and the comment "Already configured.",
\* whatever the loading, the comparison and the discard returned.
C5_AlwaysAlreadyConfigured ==
    (Returned /\ ~test /\ commit_config /\ ~DiffNonEmpty) =>
        /\ loaded_result["already_configured"] = TRUE
        /\ loaded_result["comment"] = <<"Already configured.">>

\* C5 (amended): a run with test=False, commit=True and an empty diff in
\* which loading succeeded and discard_config succeeded returns
\* already_configured=True and exactly the comment "Already configured.",
\* whatever the comment was before.
C5_AlreadyConfigured ==
    (/\ Returned /\ ~test /\ commit_config /\ ~DiffNonEmpty
     /\ _loaded.result /\ Succeeded("discard_config")) =>
        /\ loaded_result["already_configured"] = TRUE
        /\ loaded_result["comment"] = <<"Already configured.">>

C5_Witness ==
    /\ Returned /\ ~test /\ commit_config /\ ~DiffNonEmpty
    /\ _loaded.result /\ _loaded.comment # ""
    /\ Succeeded("discard_config")
    /\ loaded_result["comment"] = <<"Already configured.">>

\* C6: a run with test=True and a non-empty diff in which discard_config
\* succeeded returns already_configured=False, a comment containing
\* "Configuration discarded." and the result flag of the loading.
C6_TestModeDiscarded ==
    (Returned /\ test /\ DiffNonEmpty /\ Succeeded("discard_config")) =>
        /\ loaded_result["already_configured"] = FALSE
        /\ Contains(loaded_result["comment"], <<"Configuration discarded.">>)
        /\ loaded_result["result"] = _loaded.result

C6_Witness ==
    /\ Returned /\ test /\ DiffNonEmpty /\ Succeeded("discard_config")
    /\ _loaded.result /\ loaded_result["result"] = TRUE

\* C7: with test=False, commit=True, a successful loading, a successful
\* comparison with a non-empty diff and a successful commit, the returned
\* dict has result=True, already_configured=False, diff equal to the
\* output of compare_config and no 'out' key, and discard_config was not
\* invoked.
C7_CommittedResult ==
    (/\ Returned /\ ~test /\ commit_config /\ _loaded.result
     /\ DiffNonEmpty /\ Succeeded("commit_config")) =>
        /\ loaded_result["result"] = TRUE
        /\ loaded_result["already_configured"] = FALSE
        /\ "diff" \in DOMAIN loaded_result
        /\ loaded_result["diff"] = returned["compare_config"].out
        /\ "out" \notin DOMAIN loaded_result
        /\ Count("discard_config") = 0

C7_Witness ==
    /\ Returned /\ ~test /\ commit_config /\ _loaded.result
    /\ DiffNonEmpty /\ Succeeded("commit_config")
    /\ fn = "load_template"

\* C8: within a load_config / load_template run and within config_control
\* the result flag never goes from False back to True, and the flag that is
\* returned is False whenever commit_config failed.
C8_SucceededMonotone ==
    [][/\ (fn \in {"load_config", "load_template"}
             /\ ~loaded_result["result"]) => ~loaded_result'["result"]
       /\ (fn = "config_control" /\ ~result) => ~result'
       /\ (Returned /\ Failed("commit_config"))' => ~loaded_result'["result"]
       /\ (ControlReturned /\ Failed("commit_config"))' => ~retval'[1]]_vars

C8_Witness ==
    /\ Returned /\ Failed("commit_config") /\ Succeeded("discard_config")
    /\ loaded_result["result"] = FALSE

\* C9: when discard_config failed in a load_config / load_template run, the
\* returned comment contains the comment of that failure, or "Unable to
\* discard config." when it is empty; when rollback failed in
\* config_control, the returned comment contains "Cannot rollback! "
\* followed by the comment of that failure.
C9_CompensationFailureReported ==
    /\ (Returned /\ Failed("discard_config")) =>
          Contains(loaded_result["comment"],
                   Reason("discard_config", "Unable to discard config."))
    /\ (ControlReturned /\ Failed("rollback")) =>
          Contains(retval[2],
                   <<"\nCannot rollback! ">> \o Str(returned["rollback"].comment))

C9_Witness ==
    /\ Returned /\ Failed("commit_config") /\ Failed("discard_config")
    /\ returned["discard_config"].comment = ""

\* C10: when loading failed or compare_config failed, the run that has
\* returned has invoked discard_config exactly once, its result is False and
\* its comment carries the comment of the failure.
C10_StagingOrCompareFailureSurfaced ==
    (Returned /\ (~_loaded.result \/ Failed("compare_config"))) =>
        /\ Count("discard_config") = 1
        /\ loaded_result["result"] = FALSE
        /\ ~_loaded.result =>
              Contains(loaded_result["comment"], Str(_loaded.comment))
        /\ Failed("compare_config") =>
              Contains(loaded_result["comment"],
                       Str(returned["compare_config"].comment))

\* C11 (as stated): in every returned result already_configured is True if
\* and only if the diff is empty or discard_config was invoked and
\* commit_config was not.
C11_AlreadyConfiguredIffNoChange ==
    Returned =>
        (loaded_result["already_configured"] = TRUE
            <=> (\/ ~DiffNonEmpty
                 \/ (Invoked("discard_config") /\ ~Invoked("commit_config"))))

\* C11 (amended): in every returned result already_configured is True if and
\* only if the diff is empty and either the failure / test branch was taken
\* (loading failed or test=True) or commit=True and discard_config
\* succeeded.
C11_AlreadyConfiguredExact ==
    Returned =>
        (loaded_result["already_configured"] = TRUE
            <=> (/\ ~DiffNonEmpty
                 /\ \/ ~_loaded.result
                    \/ test
                    \/ (commit_config /\ Succeeded("discard_config"))))

C11_Witness ==
    /\ Returned /\ test /\ DiffNonEmpty
    /\ Succeeded("discard_config") /\ ~Invoked("commit_config")
    /\ loaded_result["already_configured"] = FALSE

\* The result dict as it stands after the diff computation.
AfterDiffComputation ==
    IF Succeeded("compare_config")
    THEN [result |-> _loaded.result, comment |-> Str(_loaded.comment),
          already_configured |-> FALSE,
          diff |-> returned["compare_config"].out]
    ELSE [result |-> _loaded.result, comment |-> Str(_loaded.comment),
          already_configured |-> FALSE,
          out |-> _loaded.out]

\* C12 (as stated): a run with test=False and commit=False invokes neither
\* commit_config nor discard_config and returns the result as it stands
\* after the diff computation, whatever the loading and the comparison
\* returned.
C12_NoActionWithoutCommit ==
    (Returned /\ ~test /\ ~commit_config) =>
        /\ Count("commit_config") = 0
        /\ Count("discard_config") = 0
        /\ loaded_result = AfterDiffComputation

\* C12 (amended): a run with test=False and commit=False in which loading
\* succeeded invokes neither commit_config nor discard_config and returns
\* the result as it stands after the diff computation, whatever the
\* comparison returned.
C12_NoActionWithoutCommitLoaded ==
    (Returned /\ ~test /\ ~commit_config /\ _loaded.result) =>
        /\ Count("commit_config") = 0
        /\ Count("discard_config") = 0
        /\ loaded_result = AfterDiffComputation

C12_Witness ==
    /\ Returned /\ ~test /\ ~commit_config /\ _loaded.result
    /\ DiffNonEmpty
    /\ calls = <<"load_merge_candidate", "compare_config">>

\* C13 (as stated): in a load_config / load_template run a failed
\* commit_config is followed by an invocation of rollback.
C13_CommitFailureRollsBack ==
    (Returned /\ Failed("commit_config")) => Count("rollback") >= 1

\* C13 (amended): in a load_config / load_template run a failed
\* commit_config is followed by one invocation of discard_config, never of
\* rollback, and the returned comment ends with a newline and the comment
\* of the discard (or "Unable to discard config." when it is empty).
C13_CommitFailureDiscards ==
    (Returned /\ Failed("commit_config")) =>
        /\ Count("rollback") = 0
        /\ Count("discard_config") = 1
        /\ \E i \in 1..Len(calls) : \E j \in (i + 1)..Len(calls) :
              calls[i] = "commit_config" /\ calls[j] = "discard_config"
        /\ LET tail == <<"\n">>
                        \o Reason("discard_config", "Unable to discard config.")
               c == loaded_result["comment"]
           IN /\ Len(c) >= Len(tail)
              /\ SubSeq(c, Len(c) - Len(tail) + 1, Len(c)) = tail

C13_Witness ==
    /\ Returned /\ Failed("commit_config") /\ Failed("discard_config")
    /\ returned["discard_config"].comment # ""
    /\ fn = "load_template"

\* C14: a returned result flag is False only if loading, commit_config or
\* discard_config failed in that run; and when loading, compare_config and
\* discard_config all succeeded and there is no change (test=False,
\* commit=True) the result is True and already_configured is True.
C14_FalseOnlyOnFailure ==
    /\ (Returned /\ loaded_result["result"] = FALSE) =>
          \/ ~_loaded.result
          \/ Failed("commit_config")
          \/ Failed("discard_config")
    /\ (/\ Returned /\ ~test /\ commit_config /\ _loaded.result
        /\ Succeeded("compare_config") /\ ~DiffNonEmpty
        /\ Succeeded("discard_config")) =>
          /\ loaded_result["result"] = TRUE
          /\ loaded_result["already_configured"] = TRUE

C14_Witness ==
    /\ Returned /\ ~test /\ commit_config /\ _loaded.result
    /\ Succeeded("compare_config") /\ ~DiffNonEmpty
    /\ Succeeded("discard_config")
    /\ loaded_result["result"] = TRUE

\* The driver operations of a load_config / load_template run come in the
\* order load, compare, commit, discard, each at most once, and rollback is
\* never among them.
CallSequenceInOrder ==
    /\ Count("load_merge_candidate") + Count("load_template") = 1
    /\ Count("compare_config") <= 1
    /\ Count("commit_config") <= 1
    /\ Count("discard_config") <= 1
    /\ Count("rollback") = 0
    /\ pc \notin {"compare"} => Count("compare_config") = 1
    /\ \A i, j \in 1..Len(calls) :
          /\ (calls[i] = "compare_config"
                /\ calls[j] \in {"commit_config", "discard_config"}) => i < j
          /\ (calls[i] = "commit_config" /\ calls[j] = "discard_config")
                => i < j

\* C24: a load_config / load_template run invokes compare_config exactly
\* once and before any commit or discard, commit_config at most once,
\* discard_config at most once and only after commit_config when both
\* occur, rollback never, and it always reaches its return.
C24_BoundedRetryFree ==
    /\ [](fn \in {"load_config", "load_template"} => CallSequenceInOrder)
    /\ (pc = "compare" ~> Returned)

C24_Witness ==
    /\ Returned
    /\ calls = <<"load_merge_candidate", "compare_config",
                 "commit_config", "discard_config">>
    /\ Failed("commit_config")

\* The comment of a run that returns after a failed discard without a
\* commit: the comment of the loading, a newline in the failure / test
\* branch when that comment is not empty, and the reason of the discard.
AfterFailedDiscard ==
    Str(_loaded.comment)
       \o (IF (~_loaded.result \/ test) /\ _loaded.comment # ""
           THEN <<"\n">> ELSE <<>>)
       \o Reason("discard_config", "Unable to discard config.")

\* C25: when discard_config failed in the failure / test branch or in the
\* no-change branch, the run returns result=False with the comment of the
\* discard (or "Unable to discard config.") appended; the comment contains
\* neither "Configuration discarded." nor "Already configured.", and in
\* the no-change branch already_configured is False.
C25_FailedDiscardReturnsAtOnce ==
    (Returned /\ Failed("discard_config") /\ ~Invoked("commit_config")) =>
        /\ loaded_result["result"] = FALSE
        /\ loaded_result["comment"] = AfterFailedDiscard
        /\ ~Contains(loaded_result["comment"], <<"Configuration discarded.">>)
        /\ ~Contains(loaded_result["comment"], <<"Already configured.">>)
        /\ (_loaded.result /\ ~test) =>
              loaded_result["already_configured"] = FALSE

C25_Witness ==
    /\ Returned /\ Failed("discard_config") /\ ~Invoked("commit_config")
    /\ _loaded.result /\ ~test /\ commit_config
    /\ returned["discard_config"].comment = ""

\* C26: a returned result with already_configured=True has an empty diff,
\* and commit_config was not invoked in that run.
C26_AlreadyConfiguredMeansNoCommit ==
    (Returned /\ loaded_result["already_configured"] = TRUE) =>
        /\ ~DiffNonEmpty
        /\ Get(loaded_result, "diff", "") = ""
        /\ Count("commit_config") = 0

C26_Witness ==
    /\ Returned /\ loaded_result["already_configured"] = TRUE
    /\ ~_loaded.result /\ Succeeded("compare_config")
    /\ "diff" \in DOMAIN loaded_result

\* C27: a run that returns result=True with test=True or commit=True has
\* had a successful commit_config or a successful discard_config; so a run
\* that returns with the candidate still held reports a failure or was
\* called with test=False and commit=False.
C27_SessionReleased ==
    (Returned /\ loaded_result["result"] = TRUE /\ (test \/ commit_config)) =>
        (Succeeded("commit_config") \/ Succeeded("discard_config"))

C27_Witness ==
    /\ Returned /\ loaded_result["result"] = TRUE
    /\ test /\ ~commit_config
    /\ Succeeded("discard_config")

(***************************************************************************)
(* Properties of config_changed and config_control                         *)
(***************************************************************************)

\* config_changed has returned.
ChangedReturned == pc = "done" /\ fn = "config_changed"

\* The reason config_changed gives when it reports no change.
NotChangedReason ==
    IF Succeeded("compare_config")
    THEN <<"Configuration was not changed on the device.">>
    ELSE Str(returned["compare_config"].comment)

\* C15: config_changed invokes compare_config once and nothing else, and
\* returns (False, the comment of the failure) when it failed, (True, "")
\* when it succeeded with a non-empty diff, and (False, "Configuration was
\* not changed on the device.") when it succeeded with an empty diff.
C15_ConfigChanged ==
    ChangedReturned =>
        /\ calls = <<"compare_config">>
        /\ Failed("compare_config") =>
              retval = <<FALSE, Str(returned["compare_config"].comment)>>
        /\ DiffNonEmpty => retval = <<TRUE, <<>>>>
        /\ (Succeeded("compare_config") /\ ~DiffNonEmpty) =>
              retval = <<FALSE,
                         <<"Configuration was not changed on the device.">>>>

C15_Witness ==
    /\ ChangedReturned /\ Failed("compare_config")
    /\ returned["compare_config"].comment = "msg1"
    /\ retval = <<FALSE, <<"msg1">>>>

\* C16: when the comparison reports no change (empty diff or failure),
\* config_control returns the pair of config_changed, whose boolean is the
\* drift flag False, having invoked compare_config only.
C16_NoDriftReturnsAtOnce ==
    (ControlReturned /\ ~DiffNonEmpty) =>
        /\ calls = <<"compare_config">>
        /\ retval = <<FALSE, NotChangedReason>>

C16_Witness ==
    /\ ControlReturned /\ Succeeded("compare_config") /\ ~DiffNonEmpty
    /\ retval[1] = FALSE

\* C17: with drift present config_control invokes commit_config exactly
\* once; after a successful commit it returns (True, "") without rollback;
\* after a failed commit it invokes rollback exactly once and returns False
\* with a comment that contains the comment of the failed commit and, when
\* rollback failed, the comment of the failed rollback.
C17_ReconcileWithDrift ==
    (ControlReturned /\ DiffNonEmpty) =>
        /\ Count("commit_config") = 1
        /\ Count("compare_config") = 1
        /\ Succeeded("commit_config") =>
              /\ retval = <<TRUE, <<>>>>
              /\ Count("rollback") = 0
        /\ Failed("commit_config") =>
              /\ Count("rollback") = 1
              /\ retval[1] = FALSE
              /\ Contains(retval[2], Str(returned["commit_config"].comment))
              /\ Failed("rollback") =>
                    Contains(retval[2], Str(returned["rollback"].comment))

C17_Witness ==
    /\ ControlReturned /\ DiffNonEmpty
    /\ Failed("commit_config") /\ Failed("rollback")
    /\ returned["commit_config"].comment = "msg1"
    /\ returned["rollback"].comment = "msg2"

\* The comment of config_control as it stands when rollback is invoked.
AnnouncedRollback ==
    <<"Unable to commit the changes: ">>
       \o Str(returned["commit_config"].comment)
       \o <<".\n        Will try to rollback now!">>

\* Drift present, commit failed with "syntax error", rollback succeeded.
ScenarioC ==
    /\ ControlReturned /\ DiffNonEmpty
    /\ Failed("commit_config")
    /\ returned["commit_config"].comment = "syntax error"
    /\ Succeeded("rollback")

\* C18 (as stated): in scenario C config_control returns False with a
\* comment that contains "syntax error" and confirms that the rollback was
\* performed: the comment says more than it said before rollback was
\* invoked.
C18_ScenarioCConfirmsRollback ==
    ScenarioC =>
        /\ retval[1] = FALSE
        /\ Contains(retval[2], <<"syntax error">>)
        /\ retval[2] # AnnouncedRollback

\* C18 (amended): in scenario C config_control returns False with the
\* comment built before rollback was invoked, which contains "syntax error"
\* and the announcement "Will try to rollback now!", and no "Cannot
\* rollback!" text.
C18_ScenarioCAnnouncesRollback ==
    ScenarioC =>
        /\ retval[1] = FALSE
        /\ Contains(retval[2], <<"syntax error">>)
        /\ Contains(retval[2], <<".\n        Will try to rollback now!">>)
        /\ ~Contains(retval[2], <<"\nCannot rollback! ">>)
        /\ retval[2] = AnnouncedRollback

C18_Witness ==
    /\ ScenarioC
    /\ calls = <<"compare_config", "commit_config", "rollback">>

(***************************************************************************)
(* Filter helpers                                                          *)
(***************************************************************************)

\* Python's None.
NoneValue == "None"

\* The keys the records of the device tables may have.
FieldNames == {"interface", "mac"}

\* The keys a caller may search for; "vlan" is in no record.
SearchKeys == FieldNames \cup {"vlan"}

\* The values a field may hold and a caller may search for.
FieldValues ==
    {NoneValue} \cup {"eth" \o ToString(i) : i \in 0..(NumValues - 1)}

\* The dictionaries of a table: any subset of the keys, any values.
Records == UNION {[K -> FieldValues] : K \in SUBSET FieldNames}

\* The lists of dictionaries given to _filter_list.
RecordLists == UNION {[1..n -> Records] : n \in 0..MaxRecords}

\* dict.get(k): None when the key is missing.
GetOrNone(d, k) == Get(d, k, NoneValue)

\* The loop of _filter_list from position i on, with the output so far.
RECURSIVE FilterLoop(_, _, _, _, _)
FilterLoop(input_list, i, output_list, search_key, search_value) ==
    IF i > Len(input_list)
    THEN output_list
    ELSE FilterLoop(input_list, i + 1,
                    IF GetOrNone(input_list[i], search_key) = search_value
                    THEN Append(output_list, input_list[i])
                    ELSE output_list,
                    search_key, search_value)

_filter_list(input_list, search_key, search_value) ==
    FilterLoop(input_list, 1, <<>>, search_key, search_value)

\* A call of _filter_list with any list, key and value.
FilterInit ==
    /\ pc = "idle"
    /\ fn = "_filter_list"
    /\ args \in [input_list : RecordLists,
                 search_key : SearchKeys,
                 search_value : FieldValues]
    /\ test = FALSE
    /\ commit_config = TRUE
    /\ loaded_result = <<>>
    /\ calls = <<>>
    /\ returned = <<>>
    /\ result = TRUE
    /\ comment = <<>>
    /\ retval = <<>>
    /\ device = <<>>

\* _filter_list runs and returns its output list.
FilterList ==
    /\ pc = "idle"
    /\ fn = "_filter_list"
    /\ retval' = _filter_list(args.input_list, args.search_key,
                              args.search_value)
    /\ pc' = "done"
    /\ UNCHANGED <<fn, test, commit_config, loaded_result, calls, returned,
                   result, comment, args, device>>

FilterNext == FilterList

FilterSpec == FilterInit /\ [][FilterNext]_vars

\* _filter_list has returned.
FilterReturned == pc = "done" /\ fn = "_filter_list"

\* C20: _filter_list called with a key that no record of the list has
\* returns the empty list, whatever the searched value is (None included).
C20_AbsentKeyGivesEmpty ==
    (/\ FilterReturned
     /\ \A i \in 1..Len(args.input_list) :
           args.search_key \notin DOMAIN args.input_list[i]) =>
        retval = <<>>

\* The records of the list whose field search_key is present and equal to
\* search_value, in the order of the list.
RECURSIVE Matching(_, _, _)
Matching(l, k, v) ==
    IF l = <<>> THEN <<>>
    ELSE (IF k \in DOMAIN Head(l) /\ Head(l)[k] = v
          THEN <<Head(l)>> ELSE <<>>) \o Matching(Tail(l), k, v)

\* C21: _filter_list returns exactly the records of the input list whose
\* field search_key equals search_value, in their original order; so an
\* empty list gives an empty list and a value that every record holds gives
\* the input list.
C21_ExactSubsequence ==
    FilterReturned =>
        /\ retval = Matching(args.input_list, args.search_key,
                             args.search_value)
        /\ args.input_list = <<>> => retval = <<>>
        /\ (\A i \in 1..Len(args.input_list) :
               /\ args.search_key \in DOMAIN args.input_list[i]
               /\ args.input_list[i][args.search_key] = args.search_value)
              => retval = args.input_list

(***************************************************************************)
(* _filter_dict and lldp                                                   *)
(***************************************************************************)

\* The interfaces the neighbor mapping of the driver may have as keys.
GroupNames == {"xe-0/0/1", "xe-0/0/2"}

\* The dictionaries in the lists of a mapping.
GroupRecords == UNION {[K -> FieldValues] : K \in SUBSET {"interface"}}

\* The lists a mapping may hold under a key.
GroupLists == UNION {[1..n -> GroupRecords] : n \in 0..MaxRecords}

\* The dictionaries of lists given to _filter_dict and returned by the
\* driver's get_lldp_neighbors_detail.
GroupDicts == UNION {[G -> GroupLists] : G \in SUBSET GroupNames}

\* The loop of _filter_dict over the keys not yet visited.
RECURSIVE FilterDictLoop(_, _, _, _, _)
FilterDictLoop(input_dict, remaining, output_dict, search_key, search_value) ==
    IF remaining = {}
    THEN output_dict
    ELSE LET key == CHOOSE x \in remaining : TRUE
             key_list_filtered ==
                 _filter_list(input_dict[key], search_key, search_value)
         IN FilterDictLoop(input_dict, remaining \ {key},
                           IF key_list_filtered # <<>>
                           THEN SetKey(output_dict, key, key_list_filtered)
                           ELSE output_dict,
                           search_key, search_value)

\* Variant: a key is kept even when its filtered list is empty.
_filter_dict_KeepEmpty(input_dict, search_key, search_value) ==
    [key \in DOMAIN input_dict |->
        _filter_list(input_dict[key], search_key, search_value)]

_filter_dict(input_dict, search_key, search_value) ==
    FilterDictLoop(input_dict, DOMAIN input_dict, <<>>,
                   search_key, search_value)

\* The 'out' of lldp for the neighbor mapping of the driver.
LldpOut(lldp_neighbors, interface) ==
    IF interface # ""
    THEN (interface :> GetOrNone(lldp_neighbors, interface))
    ELSE lldp_neighbors

\* A call of _filter_dict with any mapping, key and value, or a call of
\* lldp with any interface argument.
GroupInit ==
    /\ pc = "idle"
    /\ \/ /\ fn = "_filter_dict"
          /\ args \in [input_dict : GroupDicts,
                       search_key : SearchKeys,
                       search_value : FieldValues]
       \/ /\ fn = "lldp"
          /\ args \in [interface : {""} \cup GroupNames]
    /\ test = FALSE
    /\ commit_config = TRUE
    /\ loaded_result = <<>>
    /\ calls = <<>>
    /\ returned = <<>>
    /\ result = TRUE
    /\ comment = <<>>
    /\ retval = <<>>
    /\ device = <<>>

\* _filter_dict runs and returns its output dict.
FilterDict ==
    /\ pc = "idle"
    /\ fn = "_filter_dict"
    /\ retval' = _filter_dict(args.input_dict, args.search_key,
                              args.search_value)
    /\ pc' = "done"
    /\ UNCHANGED <<fn, test, commit_config, loaded_result, calls, returned,
                   result, comment, args, device>>

\* lldp: get_lldp_neighbors_detail, then the selection of the interface.
LldpCall ==
    /\ pc = "idle"
    /\ fn = "lldp"
    /\ \E r \in BOOLEAN :
          \E m \in (IF r THEN {""} ELSE DriverComments) :
             \E o \in (IF r THEN GroupDicts ELSE {"None"}) :
                LET proxy_output == Envelope(r, m, o) IN
                /\ Invoke("get_lldp_neighbors_detail", proxy_output)
                /\ retval' =
                      IF ~Get(proxy_output, "result", FALSE)
                      THEN proxy_output
                      ELSE SetKey(proxy_output, "out",
                                  LldpOut(Get(proxy_output, "out", "None"),
                                          args.interface))
    /\ pc' = "done"
    /\ UNCHANGED <<fn, test, commit_config, loaded_result, result, comment,
                   args, device>>

GroupNext ==
    \/ FilterDict
    \/ LldpCall

GroupSpec == GroupInit /\ [][GroupNext]_vars

\* _filter_dict has returned.
DictReturned == pc = "done" /\ fn = "_filter_dict"

\* lldp has returned.
LldpReturned == pc = "done" /\ fn = "lldp"

\* The list holds a record that _filter_list keeps.
HasMatch(l, k, v) == \E i \in 1..Len(l) : Get(l[i], k, NoneValue) = v

\* The keys of the input mapping whose list holds a matching record.
MatchingGroups ==
    {g \in DOMAIN args.input_dict :
        HasMatch(args.input_dict[g], args.search_key, args.search_value)}

\* C22: _filter_dict returns, for exactly the keys whose list holds a
\* matching record, the list _filter_list returns for it; no key of the
\* result maps to an empty list, and K matching groups give K keys.
C22_GroupsWithMatchesOnly ==
    DictReturned =>
        /\ DOMAIN retval = MatchingGroups
        /\ Cardinality(DOMAIN retval) = Cardinality(MatchingGroups)
        /\ \A g \in DOMAIN retval :
              /\ retval[g] = _filter_list(args.input_dict[g], args.search_key,
                                          args.search_value)
              /\ retval[g] # <<>>

C22_Witness ==
    /\ DictReturned
    /\ Cardinality(DOMAIN args.input_dict) = 2
    /\ Cardinality(DOMAIN retval) = 1
    /\ \E g \in DOMAIN retval :
          Len(retval[g]) < Len(args.input_dict[g])

\* C23: lldp called with an interface returns, when the driver succeeded,
\* only keys that the neighbor mapping of the driver has and that hold
\* entries there; an interface the driver reports no neighbors for is not a
\* key of the result.
C23_LldpOnlyInterfacesWithNeighbors ==
    (/\ LldpReturned /\ args.interface # ""
     /\ Succeeded("get_lldp_neighbors_detail")) =>
        \A g \in DOMAIN retval.out :
           /\ g \in DOMAIN returned["get_lldp_neighbors_detail"].out
           /\ returned["get_lldp_neighbors_detail"].out[g] # <<>>

(***************************************************************************)
(* Drift detection against a device                                        *)
(*                                                                         *)
(* The driver behind napalm.call is described by its contract: the device  *)
(* holds a running, a candidate and a previously committed configuration;  *)
(* compare_config reads them, commit_config, discard_config and rollback   *)
(* change them; every operation fails on a device that is not reachable.   *)
(***************************************************************************)

Configs == 1..NumConfigs

DeviceStates ==
    [running : Configs, candidate : Configs, previous : Configs,
     online : BOOLEAN]

\* The envelope of an operation on a device that is not reachable.
DeviceError == Envelope(FALSE, "msg1", "None")

\* compare_config: the diff between the running and the candidate config.
DeviceCompare(d) ==
    IF ~d.online THEN DeviceError
    ELSE IF d.running = d.candidate THEN Envelope(TRUE, "", "")
    ELSE Envelope(TRUE, "",
                  "diff" \o ToString(d.running) \o ToString(d.candidate))

\* The device after commit_config: the candidate becomes the running config.
DeviceAfterCommit(d) ==
    IF ~d.online THEN d
    ELSE [d EXCEPT !.previous = d.running, !.running = d.candidate]

\* The device after discard_config: the candidate is abandoned.
DeviceAfterDiscard(d) ==
    IF ~d.online THEN d ELSE [d EXCEPT !.candidate = d.running]

\* The device after rollback: back to the last committed configuration.
DeviceAfterRollback(d) ==
    IF ~d.online THEN d ELSE [d EXCEPT !.running = d.previous]

\* The envelope of an operation that changes the device.
DeviceDone(d) == IF ~d.online THEN DeviceError ELSE Envelope(TRUE, "", "None")

DriftInit ==
    /\ pc = "idle"
    /\ fn = "none"
    /\ device \in DeviceStates
    /\ test = FALSE
    /\ commit_config = TRUE
    /\ loaded_result = <<>>
    /\ calls = <<>>
    /\ returned = <<>>
    /\ result = TRUE
    /\ comment = <<>>
    /\ retval = <<>>
    /\ args = <<>>

\* No function is running and one more driver operation is allowed.
DriftReady == pc \in {"idle", "done"} /\ Len(calls) < MaxCalls

\* Variant: config_changed commits the changes it finds.
DriftConfigChanged_Commits ==
    /\ DriftReady
    /\ LET try_compare == DeviceCompare(device)
           t == config_changed(try_compare)
       IN /\ retval' = t
          /\ IF t[1]
             THEN /\ calls' = calls
                              \o <<"compare_config", "commit_config">>
                  /\ returned' = ("compare_config" :> try_compare)
                                 @@ ("commit_config" :> DeviceDone(device))
                                 @@ returned
                  /\ device' = DeviceAfterCommit(device)
             ELSE /\ Invoke("compare_config", try_compare)
                  /\ device' = device
    /\ fn' = "config_changed"
    /\ pc' = "done"
    /\ UNCHANGED <<test, commit_config, loaded_result, result, comment, args>>

\* config_changed on the device: one compare_config, then return.
DriftConfigChanged ==
    /\ DriftReady
    /\ LET try_compare == DeviceCompare(device) IN
          /\ Invoke("compare_config", try_compare)
          /\ retval' = config_changed(try_compare)
    /\ fn' = "config_changed"
    /\ pc' = "done"
    /\ UNCHANGED <<test, commit_config, loaded_result, result, comment, args,
                   device>>

\* commit(): the envelope of commit_config, unchanged.
DriftCommit ==
    /\ DriftReady
    /\ Invoke("commit_config", DeviceDone(device))
    /\ retval' = DeviceDone(device)
    /\ device' = DeviceAfterCommit(device)
    /\ fn' = "commit"
    /\ pc' = "done"
    /\ UNCHANGED <<test, commit_config, loaded_result, result, comment, args>>

\* discard_config(): the envelope of discard_config, unchanged.
DriftDiscard ==
    /\ DriftReady
    /\ Invoke("discard_config", DeviceDone(device))
    /\ retval' = DeviceDone(device)
    /\ device' = DeviceAfterDiscard(device)
    /\ fn' = "discard_config"
    /\ pc' = "done"
    /\ UNCHANGED <<test, commit_config, loaded_result, result, comment, args>>

\* rollback(): the envelope of rollback, unchanged.
DriftRollback ==
    /\ DriftReady
    /\ Invoke("rollback", DeviceDone(device))
    /\ retval' = DeviceDone(device)
    /\ device' = DeviceAfterRollback(device)
    /\ fn' = "rollback"
    /\ pc' = "done"
    /\ UNCHANGED <<test, commit_config, loaded_result, result, comment, args>>

DriftNext ==
    \/ DriftConfigChanged
    \/ DriftCommit
    \/ DriftDiscard
    \/ DriftRollback

DriftSpec == DriftInit /\ [][DriftNext]_vars

====
